---- MODULE Spec2Model ----
(***************************************************************************)
(* Titlebar widget of the editor (crates/collab_ui CollabTitlebarItem and  *)
(* its near-duplicate crates/header_ui TitlebarItem): the resolvers that   *)
(* turn project / user-store state into the rendered frame, the           *)
(* subscriptions that mark the widget dirty, and the popover builders.    *)
(*                                                                         *)
(* Strings are sequences of one-character strings, Option<T> is a         *)
(* sequence of length 0 (None) or 1 (Some).                               *)
(***************************************************************************)
EXTENDS Integers, Sequences, FiniteSets, TLC

VARIABLES
    presence,             \* TRUE: CollabTitlebarItem, FALSE: header_ui's TitlebarItem
    worktrees,            \* Project::visible_worktrees(): Seq of [root_name, git_entry]
    host,                 \* Project::host(): Option [user_id, peer_id]
    cached_users,         \* UserStore: set of user ids with a cached User
    participant_indices,  \* UserStore::participant_indices(): user id -> Option index
    current_user,         \* UserStore::current_user(): Option user id
    env_user,             \* env::var("USER"): Option string
    workspace_alive,      \* whether WeakView<Workspace> still upgrades
    dirty,                \* cx.notify() was called since the last render pass
    frame,                \* Option: what the last render pass produced
    user_menu,            \* Option: what the last render_user_menu_button call produced
    popovers,             \* anchor id -> Option view id (the open overlay)
    focus,                \* Option view id owning input focus
    next_view,            \* id the next cx.new_view will get
    log,                  \* number of errors logged by log_err
    followed              \* Seq of peer ids passed to Workspace::follow

vars == <<presence, worktrees, host, cached_users, participant_indices, current_user,
          env_user, workspace_alive, dirty, frame, user_menu, popovers,
          focus, next_view, log, followed>>

store_vars == <<worktrees, host, cached_users, participant_indices, current_user>>
ui_vars == <<popovers, focus, next_view, log, followed>>

----------------------------------------------------------------------------
\* Bounds of the model

MaxWorktrees == 2
MaxNameLen == 60
MaxLog == 2
MaxViews == 3
MaxFollows == 2

----------------------------------------------------------------------------
\* Values

None == <<>>
Some(x) == <<x>>
IsSome(o) == Len(o) = 1
Unwrap(o) == o[1]

Chars == <<"a", "b", "c">>
NameOfLen(n) == [i \in 1..n |-> Chars[(i % 3) + 1]]
Str(n, c) == [i \in 1..n |-> IF i = 1 THEN c ELSE Chars[(i % 3) + 1]]

Ellipsis == "..."

MAX_PROJECT_NAME_LENGTH == 40
MAX_BRANCH_NAME_LENGTH == 40

OpenRecentProject ==
    <<"O","p","e","n"," ","r","e","c","e","n","t"," ","p","r","o","j","e","c","t">>

UserIds == {1, 2}
PeerIds == {11, 12}
ColorIndices == {0, 1}
Anchors == {"project_name_trigger", "project_branch_trigger"}

github_login(user_id) == Str(4, IF user_id = 1 THEN "x" ELSE "y")

\* A worktree: root_name() and root_git_entry() (Option<RepositoryEntry>, whose
\* branch() is an Option<string>).
Worktree(name, entry) == [root_name |-> name, git_entry |-> entry]
RepositoryEntry(branch) == [branch |-> branch]

GitEntries(branches) ==
    {None, Some(RepositoryEntry(None))} \cup {Some(RepositoryEntry(Some(b))) : b \in branches}

SmallNames == {Str(3, "p"), Str(5, "q"), Str(41, "r")}
SmallBranches == {Str(4, "m"), Str(41, "d")}
SmallPool == {Worktree(n, e) : n \in SmallNames, e \in GitEntries(SmallBranches)}

TinyPool == {Worktree(Str(3, "p"), None),
             Worktree(Str(5, "q"), Some(RepositoryEntry(Some(Str(4, "m")))))}

AllNames == {NameOfLen(n) : n \in 0..MaxNameLen}
AllPool == {Worktree(n, e) : n \in AllNames, e \in GitEntries(AllNames)}

----------------------------------------------------------------------------
\* util::truncate_and_trailoff

truncate_keep_max_chars(s, max_chars) ==
    IF Len(s) <= max_chars THEN s
    ELSE Append(SubSeq(s, 1, max_chars), Ellipsis)

truncate_and_trailoff(s, max_chars) ==
    IF Len(s) <= max_chars THEN s
    ELSE Append(SubSeq(s, 1, max_chars - 1), Ellipsis)

----------------------------------------------------------------------------
\* Resolvers

\* render_project_host: three lookups, each `?`
render_project_host_no_index(h, users, indices) ==
    IF ~IsSome(h) THEN None
    ELSE IF Unwrap(h).user_id \notin users THEN None
    ELSE Some([login |-> github_login(Unwrap(h).user_id),
               color |-> 0,
               host_peer_id |-> Unwrap(h).peer_id])

render_project_host(h, users, indices) ==
    IF ~IsSome(h) THEN None
    ELSE IF Unwrap(h).user_id \notin users THEN None
    ELSE IF ~IsSome(indices[Unwrap(h).user_id]) THEN None
    ELSE Some([login |-> github_login(Unwrap(h).user_id),
               color |-> Unwrap(indices[Unwrap(h).user_id]),
               host_peer_id |-> Unwrap(h).peer_id])

\* names.next(): the root name of the first visible worktree
first_root_name(ws) == IF ws = <<>> THEN None ELSE Some(Head(ws).root_name)

render_project_name_last(ws) ==
    LET name == IF ws = <<>> THEN None ELSE Some(ws[Len(ws)].root_name)
    IN  [label |-> IF IsSome(name)
                   THEN truncate_and_trailoff(Unwrap(name), MAX_PROJECT_NAME_LENGTH)
                   ELSE OpenRecentProject,
         is_project_selected |-> IsSome(name),
         muted |-> ~IsSome(name)]

render_project_name(ws) ==
    LET name == first_root_name(ws)
        is_project_selected == IsSome(name)
    IN  [label |-> IF IsSome(name)
                   THEN truncate_and_trailoff(Unwrap(name), MAX_PROJECT_NAME_LENGTH)
                   ELSE OpenRecentProject,
         is_project_selected |-> is_project_selected,
         muted |-> ~is_project_selected]

\* names_and_branches.next().flatten(): the git entry of the first worktree
first_git_entry(ws) == IF ws = <<>> THEN None ELSE Head(ws).git_entry

\* entry.and_then(RepositoryEntry::branch)
entry_branch(entry) == IF IsSome(entry) THEN Unwrap(entry).branch ELSE None

RECURSIVE find_branch(_)
find_branch(ws) ==
    IF ws = <<>> THEN None
    ELSE IF IsSome(entry_branch(Head(ws).git_entry)) THEN entry_branch(Head(ws).git_entry)
    ELSE find_branch(Tail(ws))

render_project_branch_scan(ws, alive) ==
    IF ~alive THEN None
    ELSE IF ~IsSome(find_branch(ws)) THEN None
    ELSE Some([label |-> truncate_and_trailoff(Unwrap(find_branch(ws)),
                                               MAX_BRANCH_NAME_LENGTH)])

render_project_branch_no_upgrade(ws, alive) ==
    IF ~IsSome(entry_branch(first_git_entry(ws))) THEN None
    ELSE Some([label |-> truncate_and_trailoff(Unwrap(entry_branch(first_git_entry(ws))),
                                               MAX_BRANCH_NAME_LENGTH)])

render_project_branch(ws, alive) ==
    LET entry == first_git_entry(ws)
    IN  IF ~alive THEN None                       \* self.workspace.upgrade()?
        ELSE IF ~IsSome(entry_branch(entry)) THEN None
        ELSE Some([label |-> truncate_and_trailoff(Unwrap(entry_branch(entry)),
                                                   MAX_BRANCH_NAME_LENGTH)])

\* The right-hand control kinds share one record shape.
SignedInItems == <<"Settings", "Extensions", "Themes...", "separator", "Sign Out">>
SignedOutItems == <<"Settings", "Extensions", "Themes...">>

render_user_menu_button_static(user) ==
    [kind |-> "user-menu", items |-> SignedOutItems, avatar |-> user, text |-> <<>>]

render_user_menu_button(user) ==
    IF IsSome(user)
    THEN [kind |-> "user-menu", items |-> SignedInItems, avatar |-> user, text |-> <<>>]
    ELSE [kind |-> "user-menu", items |-> SignedOutItems, avatar |-> None, text |-> <<>>]

\* format!("what's up, {}", env::var("USER").unwrap_or(""))
render_whats_up(user) ==
    [kind |-> "label", items |-> <<>>, avatar |-> None,
     text |-> IF IsSome(user) THEN Unwrap(user) ELSE <<>>]

\* TitlebarItem::render_user_menu_button of header_ui: one menu, no user store
titlebar_render_user_menu_button(user) ==
    [kind |-> "user-menu", items |-> <<"Settings", "Extensions", "Themes">>,
     avatar |-> None, text |-> IF IsSome(user) THEN Unwrap(user) ELSE <<>>]

\* Render::render: the left children and the right child
render_frame(ws, h, users, indices, alive, user, collab) ==
    IF collab
    THEN [host |-> render_project_host(h, users, indices),
          name |-> render_project_name(ws),
          branch |-> render_project_branch(ws, alive),
          right |-> render_whats_up(user)]
    ELSE [host |-> None,
          name |-> render_project_name(ws),
          branch |-> render_project_branch(ws, alive),
          right |-> titlebar_render_user_menu_button(user)]

\* on_click of the host control: host_peer_id was moved into the listener
follow_target_reread(control, h) ==
    IF IsSome(h) THEN Unwrap(h).peer_id ELSE control.host_peer_id

follow_target(control, h) == control.host_peer_id

----------------------------------------------------------------------------
\* Popover builders: what the menu callback returns and who owns focus after it

render_vcs_popover_empty_list(build_ok, view, cur_focus, cur_log) ==
    [menu |-> Some(view), focus |-> Some(view),
     log |-> IF build_ok THEN cur_log ELSE cur_log + 1]

render_vcs_popover(build_ok, view, cur_focus, cur_log) ==
    IF build_ok
    THEN [menu |-> Some(view), focus |-> Some(view), log |-> cur_log]
    ELSE [menu |-> None, focus |-> cur_focus, log |-> cur_log + 1]   \* .log_err()?

render_project_popover_no_focus(view, cur_focus) ==
    [menu |-> Some(view), focus |-> cur_focus]

render_project_popover(view, cur_focus) ==
    [menu |-> Some(view), focus |-> Some(view)]

\* The stores a render pass reads
stores_read(collab) ==
    IF collab THEN {"project", "user_store", "workspace"} ELSE {"project", "workspace"}

----------------------------------------------------------------------------
\* Subscriptions taken by new(): cx.observe(..., |_, _, cx| cx.notify())

subscriptions_without_user_store(collab) == {"workspace", "project"}

subscriptions(collab) ==
    IF collab THEN {"workspace", "project", "user_store"} ELSE {"workspace", "project"}

\* A store's change notification reaches the observers before the next render.
Notify(store) == dirty' = (dirty \/ store \in subscriptions(presence))

----------------------------------------------------------------------------
\* The widget right after new(): nothing rendered yet
InitWidget ==
    /\ host = None
    /\ cached_users = {}
    /\ participant_indices = [u \in UserIds |-> None]
    /\ current_user = None
    /\ env_user \in {None, Some(Str(3, "u"))}
    /\ workspace_alive = TRUE
    /\ dirty = TRUE
    /\ frame = None
    /\ user_menu = None
    /\ popovers = [a \in Anchors |-> None]
    /\ focus = None
    /\ next_view = 1
    /\ log = 0
    /\ followed = <<>>

Init ==
    /\ presence \in BOOLEAN
    /\ worktrees = <<>>
    /\ InitWidget

InitCollab ==
    /\ presence = TRUE
    /\ worktrees = <<>>
    /\ InitWidget

\* Project store mutations (made by the project subsystem; each notifies)
AddWorktree(pool) ==
    /\ Len(worktrees) < MaxWorktrees
    /\ \E w \in pool : worktrees' = Append(worktrees, w)
    /\ Notify("project")
    /\ UNCHANGED <<presence, host, cached_users, participant_indices, current_user, env_user,
                   workspace_alive, frame, user_menu, ui_vars>>

RemoveWorktree ==
    /\ worktrees # <<>>
    /\ \E i \in 1..Len(worktrees) :
           worktrees' = SubSeq(worktrees, 1, i - 1) \o SubSeq(worktrees, i + 1, Len(worktrees))
    /\ Notify("project")
    /\ UNCHANGED <<presence, host, cached_users, participant_indices, current_user, env_user,
                   workspace_alive, frame, user_menu, ui_vars>>

\* The owning workspace is released; a released entity notifies nobody.
DropWorkspace ==
    /\ workspace_alive
    /\ workspace_alive' = FALSE
    /\ UNCHANGED <<presence, store_vars, env_user, dirty, frame, user_menu, ui_vars>>

\* One render pass of the widget
Render ==
    /\ frame' = Some(render_frame(worktrees, host, cached_users, participant_indices,
                                  workspace_alive, env_user, presence))
    /\ dirty' = FALSE
    /\ UNCHANGED <<presence, store_vars, env_user, workspace_alive, user_menu, ui_vars>>

SetHost ==
    /\ \E h \in {None} \cup {Some([user_id |-> u, peer_id |-> p]) : u \in UserIds, p \in PeerIds} :
           /\ h # host
           /\ host' = h
    /\ Notify("project")
    /\ UNCHANGED <<presence, worktrees, cached_users, participant_indices, current_user, env_user,
                   workspace_alive, frame, user_menu, ui_vars>>

\* User store mutations (each notifies)
CacheUser ==
    /\ \E u \in UserIds :
           cached_users' = IF u \in cached_users THEN cached_users \ {u}
                           ELSE cached_users \cup {u}
    /\ Notify("user_store")
    /\ UNCHANGED <<presence, worktrees, host, participant_indices, current_user, env_user,
                   workspace_alive, frame, user_menu, ui_vars>>

SetParticipant(indices) ==
    /\ \E u \in UserIds : \E i \in {None} \cup {Some(c) : c \in indices} :
           /\ participant_indices[u] # i
           /\ participant_indices' = [participant_indices EXCEPT ![u] = i]
    /\ Notify("user_store")
    /\ UNCHANGED <<presence, worktrees, host, cached_users, current_user, env_user,
                   workspace_alive, frame, user_menu, ui_vars>>

SignIn ==
    /\ current_user = None
    /\ \E u \in UserIds : current_user' = Some(u)
    /\ Notify("user_store")
    /\ UNCHANGED <<presence, worktrees, host, cached_users, participant_indices, env_user,
                   workspace_alive, frame, user_menu, ui_vars>>

SignOut ==
    /\ current_user # None
    /\ current_user' = None
    /\ Notify("user_store")
    /\ UNCHANGED <<presence, worktrees, host, cached_users, participant_indices, env_user,
                   workspace_alive, frame, user_menu, ui_vars>>

\* The owning workspace changes and notifies its observers
WorkspaceNotify ==
    /\ workspace_alive
    /\ Notify("workspace")
    /\ UNCHANGED <<presence, store_vars, env_user, workspace_alive, frame, user_menu, ui_vars>>

\* A call of the public render_user_menu_button
RenderUserMenuButton ==
    /\ presence
    /\ user_menu' = Some(render_user_menu_button(current_user))
    /\ UNCHANGED <<presence, store_vars, env_user, workspace_alive, dirty, frame, ui_vars>>

\* A click on the host control of the current frame
ClickHost ==
    /\ IsSome(frame)
    /\ IsSome(Unwrap(frame).host)
    /\ IF workspace_alive
       THEN /\ Len(followed) < MaxFollows
            /\ followed' = Append(followed, follow_target(Unwrap(Unwrap(frame).host), host))
            /\ log' = log
       ELSE /\ log < MaxLog
            /\ log' = log + 1                \* WeakView::update fails: .log_err()
            /\ followed' = followed
    /\ UNCHANGED <<presence, store_vars, env_user, workspace_alive, dirty, frame, user_menu,
                   popovers, focus, next_view>>

\* A click on the project-name trigger of the current frame, its popover closed
ActivateProjectName ==
    /\ IsSome(frame)
    /\ popovers["project_name_trigger"] = None
    /\ next_view <= MaxViews
    /\ LET r == render_project_popover(next_view, focus)
       IN  /\ popovers' = [popovers EXCEPT !["project_name_trigger"] = r.menu]
           /\ focus' = r.focus
    /\ next_view' = next_view + 1
    /\ UNCHANGED <<presence, store_vars, env_user, workspace_alive, dirty, frame, user_menu,
                   log, followed>>

\* A click on the branch trigger of the current frame, its popover closed;
\* build_ok is the outcome of build_branch_list
ActivateBranch(build_ok) ==
    /\ IsSome(frame)
    /\ IsSome(Unwrap(frame).branch)
    /\ popovers["project_branch_trigger"] = None
    /\ IF build_ok THEN next_view <= MaxViews ELSE log < MaxLog
    /\ LET r == render_vcs_popover(build_ok, next_view, focus, log)
       IN  /\ popovers' = [popovers EXCEPT !["project_branch_trigger"] = r.menu]
           /\ focus' = r.focus
           /\ log' = r.log
           /\ next_view' = IF build_ok THEN next_view + 1 ELSE next_view
    /\ UNCHANGED <<presence, store_vars, env_user, workspace_alive, dirty, frame, user_menu,
                   followed>>

\* The overlay of an anchor is dismissed (click-away, escape, selection)
Dismiss ==
    /\ \E a \in Anchors :
           /\ popovers[a] # None
           /\ popovers' = [popovers EXCEPT ![a] = None]
           /\ focus' = IF focus = popovers[a] THEN None ELSE focus
    /\ UNCHANGED <<presence, store_vars, env_user, workspace_alive, dirty, frame, user_menu,
                   next_view, log, followed>>

NextProject ==
    \/ AddWorktree(SmallPool)
    \/ RemoveWorktree
    \/ DropWorkspace
    \/ Render

SpecProject == Init /\ [][NextProject]_vars

\* A project opened on one folder whose root name and branch have any length
InitLabels ==
    /\ presence \in BOOLEAN
    /\ worktrees \in {<<>>} \cup {<<w>> : w \in AllPool}
    /\ InitWidget

NextLabels ==
    \/ Render
    \/ DropWorkspace

NextHost ==
    \/ SetHost
    \/ CacheUser
    \/ SetParticipant(ColorIndices)
    \/ DropWorkspace
    \/ Render
    \/ ClickHost

SpecLabels == InitLabels /\ [][NextLabels]_vars

SpecHost == InitCollab /\ [][NextHost]_vars

NextPopover ==
    \/ AddWorktree(TinyPool)
    \/ RemoveWorktree
    \/ Render
    \/ ActivateProjectName
    \/ \E ok \in BOOLEAN : ActivateBranch(ok)
    \/ Dismiss

SpecPopover == Init /\ [][NextPopover]_vars

NextStores ==
    \/ AddWorktree(TinyPool)
    \/ RemoveWorktree
    \/ SetHost
    \/ CacheUser
    \/ SetParticipant({0})
    \/ SignIn
    \/ SignOut
    \/ WorkspaceNotify
    \/ DropWorkspace
    \/ Render

SpecStores == Init /\ [][NextStores]_vars

NextUser ==
    \/ AddWorktree(TinyPool)
    \/ RemoveWorktree
    \/ SignIn
    \/ SignOut
    \/ Render
    \/ RenderUserMenuButton

SpecUser == InitCollab /\ [][NextUser]_vars

----------------------------------------------------------------------------
\* Claims about the project name and branch slots (SpecProject)

HasBranch(w) == IsSome(w.git_entry) /\ IsSome(Unwrap(w.git_entry).branch)
BranchOf(w) == Unwrap(Unwrap(w.git_entry).branch)
Truncated(b) == truncate_and_trailoff(b, 40)
WithBranch(ws) == {i \in 1..Len(ws) : HasBranch(ws[i])}
Min(S) == CHOOSE i \in S : \A j \in S : i <= j

\* C1 (as stated): a render pass with an upgradable workspace shows the branch of
\* the first worktree, in project order, that carries a branch, skipping earlier
\* worktrees without one; it shows nothing only when no worktree has a branch.
C1_FirstWithBranchWins ==
    [][(Render /\ workspace_alive) =>
         frame'[1].branch =
            IF WithBranch(worktrees) = {} THEN None
            ELSE Some([label |-> Truncated(BranchOf(worktrees[Min(WithBranch(worktrees))]))])]_vars

\* C1 (amended): a render pass with an upgradable workspace shows the branch of
\* the FIRST visible worktree only; when the first worktree has no repository
\* entry or no branch nothing is shown, also when a later worktree has a branch.
C1_FirstWorktreeOnly ==
    [][(Render /\ workspace_alive) =>
         frame'[1].branch =
            IF worktrees # <<>> /\ HasBranch(worktrees[1])
            THEN Some([label |-> Truncated(BranchOf(worktrees[1]))])
            ELSE None]_vars

C1_Witness ==
    /\ IsSome(frame) /\ ~dirty /\ workspace_alive
    /\ Len(worktrees) = 2
    /\ ~HasBranch(worktrees[1]) /\ HasBranch(worktrees[2])
    /\ frame[1].branch = None

\* C3: render_project_name always yields a trigger; with a non-empty worktree
\* sequence its label is the truncated root name of the first worktree and it is
\* not muted; with an empty sequence the label is "Open recent project", the
\* project is not selected and the trigger is muted.
C3_ProjectNameTrigger ==
    [][Render =>
         /\ IsSome(frame')
         /\ frame'[1].name =
              IF worktrees = <<>>
              THEN [label |-> OpenRecentProject, is_project_selected |-> FALSE, muted |-> TRUE]
              ELSE [label |-> Truncated(worktrees[1].root_name),
                    is_project_selected |-> TRUE, muted |-> FALSE]]_vars

C3_Witness ==
    /\ IsSome(frame) /\ ~dirty
    /\ Len(worktrees) = 2
    /\ worktrees[1].root_name # worktrees[2].root_name
    /\ Len(worktrees[1].root_name) > 40
    /\ frame[1].name.label = Truncated(worktrees[1].root_name)
    /\ ~frame[1].name.muted

\* C10: once the workspace handle no longer upgrades, render_project_branch
\* renders nothing even when the first worktree has a branch, while
\* render_project_name still renders its trigger; a branch trigger is only ever
\* produced by a pass that could upgrade the handle.
C10_BranchNeedsWorkspace ==
    [][Render =>
         /\ (~workspace_alive => frame'[1].branch = None)
         /\ (IsSome(frame'[1].branch) => workspace_alive)
         /\ frame'[1].name.label =
               IF worktrees = <<>> THEN OpenRecentProject
               ELSE Truncated(worktrees[1].root_name)]_vars

C10_Witness ==
    /\ IsSome(frame) /\ ~dirty /\ ~workspace_alive
    /\ worktrees # <<>> /\ HasBranch(worktrees[1])
    /\ frame[1].branch = None
    /\ frame[1].name.label = Truncated(worktrees[1].root_name)

----------------------------------------------------------------------------
\* Claims about the displayed length (SpecLabels)

\* What C2 says of a label shown for name n: unchanged up to 40 characters,
\* otherwise a prefix of n followed by the ellipsis marker, 40 in total.
BoundedLabel(label, n) ==
    /\ Len(label) <= 40
    /\ Len(n) <= 40 => label = n
    /\ Len(n) > 40 => /\ Len(label) = 40
                      /\ label[40] = Ellipsis
                      /\ SubSeq(label, 1, 39) = SubSeq(n, 1, 39)

\* C2: the label put on the project-name trigger and on the branch trigger is at
\* most 40 characters long counting the ellipsis marker: a name of at most 40
\* characters is shown unchanged, a longer one as a prefix plus the marker, 40
\* characters in total.
C2_LabelsAtMost40 ==
    [][Render =>
         /\ worktrees # <<>> =>
               BoundedLabel(frame'[1].name.label, worktrees[1].root_name)
         /\ IsSome(frame'[1].branch) =>
               BoundedLabel(frame'[1].branch[1].label, BranchOf(worktrees[1]))]_vars

C2_Witness ==
    /\ IsSome(frame) /\ ~dirty
    /\ worktrees # <<>> /\ HasBranch(worktrees[1])
    /\ Len(worktrees[1].root_name) > 40
    /\ Len(BranchOf(worktrees[1])) > 40
    /\ IsSome(frame[1].branch)
    /\ Len(frame[1].name.label) = 40 /\ frame[1].name.label[40] = Ellipsis
    /\ Len(frame[1].branch[1].label) = 40 /\ frame[1].branch[1].label[40] = Ellipsis

----------------------------------------------------------------------------
\* Claims about the host control (SpecHost)

HostResolves ==
    /\ IsSome(host)
    /\ host[1].user_id \in cached_users
    /\ IsSome(participant_indices[host[1].user_id])

\* C4: a render pass yields a host control if and only if the project reports a
\* host, the host's user id has a cached user and that user has a participant
\* index; the control then carries that user's login and that index, and is
\* absent otherwise.
C4_HostIffAllThree ==
    [][Render =>
         /\ IsSome(frame'[1].host) <=> HostResolves
         /\ IsSome(frame'[1].host) =>
               /\ frame'[1].host[1].login = github_login(host[1].user_id)
               /\ frame'[1].host[1].color = participant_indices[host[1].user_id][1]]_vars

C4_Witness ==
    /\ IsSome(frame) /\ ~dirty /\ HostResolves
    /\ IsSome(frame[1].host)
    /\ frame[1].host[1].color = 1
    /\ frame[1].host[1].login = github_login(2)

\* C8: a click on the host control follows the peer id captured by the render
\* pass that built the control, whatever host the project reports at the click;
\* with the workspace gone nothing is followed and one error is logged.
C8_FollowsCapturedPeer ==
    /\ [][Render /\ IsSome(frame'[1].host) =>
             frame'[1].host[1].host_peer_id = host[1].peer_id]_vars
    /\ [][ClickHost =>
             IF workspace_alive
             THEN /\ followed' = Append(followed, frame[1].host[1].host_peer_id)
                  /\ log' = log
             ELSE /\ followed' = followed
                  /\ log' = log + 1]_vars

C8_Witness ==
    /\ IsSome(frame) /\ IsSome(frame[1].host) /\ dirty
    /\ IsSome(host)
    /\ host[1].peer_id # frame[1].host[1].host_peer_id
    /\ followed = <<frame[1].host[1].host_peer_id>>
    /\ workspace_alive

----------------------------------------------------------------------------
\* Claims about the popovers (SpecPopover)

FocusOwners == {a \in Anchors : IsSome(popovers[a]) /\ popovers[a] = focus}

\* C5: when build_branch_list fails on a click on the branch trigger, the
\* popover of that anchor stays closed, focus stays where it was, the failure is
\* logged once and nothing else changes: the frame keeps its branch trigger, and
\* every later render pass with an upgradable workspace and a branch on the first
\* worktree renders it again.
C5_FailedBuildStaysClosed ==
    /\ [][ActivateBranch(FALSE) =>
             /\ popovers'["project_branch_trigger"] = None
             /\ popovers' = popovers
             /\ focus' = focus
             /\ log' = log + 1
             /\ frame' = frame /\ IsSome(frame'[1].branch)
             /\ UNCHANGED <<presence, worktrees, workspace_alive, dirty>>]_vars
    /\ [][(Render /\ log > 0 /\ workspace_alive /\ worktrees # <<>>
             /\ HasBranch(worktrees[1])) => IsSome(frame'[1].branch)]_vars

C5_Witness ==
    /\ log = 1
    /\ popovers["project_branch_trigger"] = None
    /\ IsSome(popovers["project_name_trigger"])
    /\ focus = popovers["project_name_trigger"]
    /\ IsSome(frame) /\ ~dirty /\ IsSome(frame[1].branch)
    /\ next_view = 2

\* C9: at most one open overlay owns input focus; right after an activation
\* whose builder succeeded the focus owner is the overlay that activation built;
\* a click on the project-name trigger always builds and focuses its overlay,
\* with or without an open project.
C9_SingleFocusOwner ==
    /\ [](Cardinality(FocusOwners) <= 1)
    /\ [][ActivateProjectName =>
             /\ popovers'["project_name_trigger"] = Some(next_view)
             /\ focus' = Some(next_view)
             /\ FocusOwners' = {"project_name_trigger"}]_vars
    /\ [][ActivateBranch(TRUE) =>
             /\ popovers'["project_branch_trigger"] = Some(next_view)
             /\ focus' = Some(next_view)
             /\ FocusOwners' = {"project_branch_trigger"}]_vars

C9_Witness ==
    /\ worktrees = <<>>
    /\ IsSome(popovers["project_branch_trigger"])
    /\ IsSome(popovers["project_name_trigger"])
    /\ focus = popovers["project_name_trigger"]
    /\ FocusOwners = {"project_name_trigger"}

----------------------------------------------------------------------------
\* Claims about the subscriptions (SpecStores)

----------------------------------------------------------------------------
\* Claims about the user menu (SpecUser)

\* C6 (as stated): every render pass renders the right-hand user menu from the
\* current user of that pass: Settings, Extensions, Themes, a separator and
\* Sign Out when signed in, only the first three when signed out.
C6_RenderShowsUserMenu ==
    [][Render =>
         /\ frame'[1].right.kind = "user-menu"
         /\ frame'[1].right.items =
               IF IsSome(current_user)
               THEN <<"Settings", "Extensions", "Themes...", "separator", "Sign Out">>
               ELSE <<"Settings", "Extensions", "Themes...">>]_vars

\* C6 (amended): render_user_menu_button, whenever it is called, builds the menu
\* from the current user of that call (Sign Out and the separator if and only if
\* a user is signed in); the render pass does not call it, its right-hand child
\* is the "what's up" label, which has no menu.
C6_UserMenuOnlyWhenCalled ==
    /\ [][RenderUserMenuButton =>
             /\ user_menu'[1].kind = "user-menu"
             /\ user_menu'[1].items =
                   IF IsSome(current_user)
                   THEN <<"Settings", "Extensions", "Themes...", "separator", "Sign Out">>
                   ELSE <<"Settings", "Extensions", "Themes...">>]_vars
    /\ [][Render => /\ frame'[1].right.kind = "label"
                    /\ frame'[1].right.items = <<>>]_vars

C6_Witness ==
    /\ IsSome(current_user)
    /\ IsSome(user_menu)
    /\ Len(user_menu[1].items) = 5
    /\ user_menu[1].items[5] = "Sign Out"
    /\ IsSome(frame) /\ ~dirty
    /\ frame[1].right.kind = "label"

====
